---- MODULE Spec2Model ----
(***************************************************************************)
(* A model of CardCrafter's layout and composition core:                   *)
(*   value_objects.py  BBox, Anchor, Resolution                            *)
(*   features.py       Feature.validate / layout, Text/ImageFeature.render *)
(*   template.py       Template.getFeaturesByLayer / validate              *)
(*   render.py         ResourceCache, CardData, RenderContext,             *)
(*                     RenderedImage, CardRenderer.render                  *)
(*                                                                         *)
(* The specifications share the state:                                     *)
(*   SpecLayout    one feature, Feature.layout applied to drawn inputs     *)
(*   SpecFeature   one feature, its layout / validate / render called      *)
(*                 directly and in any order against a caller-built context*)
(*   SpecValidate  one feature, Feature.validate on every mix of faults    *)
(*   Spec          CardRenderer.render on a template of several features   *)
(*   SpecRepeat    CardRenderer.render called again and again              *)
(*   SpecResources one caller's getFont / getImage calls on a cache        *)
(*   SpecThreads   threads inside getFont / getImage of one shared cache   *)
(*   SpecContext   RenderContext(...) constructed from drawn arguments     *)
(*   SpecBackend   Spec with a loader and a drawing surface that may raise *)
(*   SpecData      CardData.get and the context's value lookups            *)
(*   SpecTemplate  Template(...) constructed, then validated               *)
(*   SpecAspect    Resolution.aspect                                       *)
(***************************************************************************)
EXTENDS Integers, Sequences, FiniteSets, TLC

VARIABLES
    template,    \* the Template: name, resolution, dpi, features (declaration order)
    data,        \* the CardData.values mapping handed to the renderer
    pc,          \* position of the render call (or "Direct": no render call running)
    ctx,         \* the RenderContext, NoCtx until one is constructed
    byLayer,     \* the list template.getFeaturesByLayer() returned to render
    idx,         \* position of _composeLayers' loop in byLayer
    draws,       \* the draw calls received by the drawing surface, in order
    image,       \* the RenderedImage returned, NoImage until then
    error,       \* the exception that left the call, NoError if none
    heap,        \* number of resource handles allocated so far (object identity)
    layoutLog,   \* the direct Feature.layout calls made, with their results
    verdict,     \* outcome of the last direct validate() call, NotCalled before
    sortedOut,   \* result of the last direct getFeaturesByLayer() call
    validated,   \* positions of the features Template.validate() called validate() on
    renderNo,    \* number of the render call running (1 for the first)
    prior,       \* the ResourceCache of the previous render call's context
    cache,       \* a ResourceCache the caller owns and may share
    cacheLog,    \* the completed getFont / getImage calls on cache, with what they returned
    threads,     \* the callers inside getFont / getImage of cache, and where they are
    lastCall,    \* the last direct call of a constructor or a lookup: arguments, result
    raised       \* what the loader or the drawing backend raised inside a feature's render

vars == <<template, data, pc, ctx, byLayer, idx, draws, image, error, heap,
          layoutLog, verdict, sortedOut,
          validated, renderNo, prior, cache, cacheLog, threads, lastCall, raised>>

\* the state of one render call beyond its context and surface
callVars == <<validated, renderNo, prior, raised>>

\* the state of the caller-owned cache and of direct constructor calls
resourceVars == <<cache, cacheLog, threads, lastCall>>

----------------------------------------------------------------------------
(* Bounds of the model *)

MaxOffset == 1      \* declared bbox.x, bbox.y range over -MaxOffset..MaxOffset
MaxSize == 2        \* declared bbox.w, bbox.h range over -1..MaxSize
MaxCanvas == 2      \* canvas sides range over 0..MaxCanvas
MaxFeatures == 3    \* features per template in Spec
MaxLayoutCalls == 2 \* direct layout calls recorded in SpecFeature
MaxRenders == 2     \* direct render calls in SpecFeature
MaxCacheCalls == 3  \* getFont / getImage calls one caller makes on its cache
MaxThreads == 2     \* threads calling one shared cache in SpecThreads
MaxRenderCalls == 2 \* render calls one after the other in SpecRepeat
MaxAspectSide == 12 \* the sides of SpecAspect's resolutions range over 1..MaxAspectSide

----------------------------------------------------------------------------
(* value_objects.py *)

BBox(x, y, w, h) == [x |-> x, y |-> y, w |-> w, h |-> h]

Resolution(width, height) == [width |-> width, height |-> height]

\* math.gcd, for arguments that are not negative
RECURSIVE gcd(_, _)
gcd(a, b) == IF b = 0 THEN a ELSE gcd(b, a % b)

\* the sides printed as they are
aspectUnreduced(r) == ToString(r.width) \o ":" \o ToString(r.height)

\* Resolution.aspect: f"{self.width // divisor}:{self.height // divisor}"
aspect(r) ==
    LET divisor == gcd(r.width, r.height)
    IN  ToString(r.width \div divisor) \o ":" \o ToString(r.height \div divisor)

Anchor == {"TopLeft", "Top", "TopRight", "Left", "Center", "Right",
           "BottomLeft", "Bottom", "BottomRight", "Bleed"}

----------------------------------------------------------------------------
(* features.py: Feature.layout *)

\* Python's // on integers: floor division
TruncDiv(a, b) == IF a >= 0 THEN a \div b ELSE -((-a) \div b)

FloorDiv(a, b) == a \div b

EffectiveWNonZero(f, canvasW) == IF f.bbox.w # 0 THEN f.bbox.w ELSE canvasW

EffectiveW(f, canvasW) == IF f.bbox.w > 0 THEN f.bbox.w ELSE canvasW

\* the declared height taken as it is, except for the sentinel 0
EffectiveHDeclared(f, canvasH) == IF f.bbox.h = 0 THEN canvasH ELSE f.bbox.h

EffectiveH(f, canvasH) == IF f.bbox.h > 0 THEN f.bbox.h ELSE canvasH

\* the anchor chain of layout, for the sizes w, h
Place(f, canvasW, canvasH, w, h) ==
    CASE f.anchor = "TopLeft" ->
           BBox(f.bbox.x, f.bbox.y, w, h)
      [] f.anchor = "Top" ->
           BBox(FloorDiv(canvasW - w, 2) + f.bbox.x, f.bbox.y, w, h)
      [] f.anchor = "TopRight" ->
           BBox(canvasW - w + f.bbox.x, f.bbox.y, w, h)
      [] f.anchor = "Left" ->
           BBox(f.bbox.x, FloorDiv(canvasH - h, 2) + f.bbox.y, w, h)
      [] f.anchor = "Center" ->
           BBox(FloorDiv(canvasW - w, 2) + f.bbox.x,
                FloorDiv(canvasH - h, 2) + f.bbox.y, w, h)
      [] f.anchor = "Right" ->
           BBox(canvasW - w + f.bbox.x, FloorDiv(canvasH - h, 2) + f.bbox.y, w, h)
      [] f.anchor = "BottomLeft" ->
           BBox(f.bbox.x, canvasH - h + f.bbox.y, w, h)
      [] f.anchor = "Bottom" ->
           BBox(FloorDiv(canvasW - w, 2) + f.bbox.x, canvasH - h + f.bbox.y, w, h)
      [] f.anchor = "BottomRight" ->
           BBox(canvasW - w + f.bbox.x, canvasH - h + f.bbox.y, w, h)
      [] f.anchor = "Bleed" ->
           BBox(0, 0, canvasW, canvasH)
      [] OTHER ->
           BBox(f.bbox.x, f.bbox.y, w, h)

\* layout with the position computed from the declared sizes
layoutDeclaredSize(f, canvasW, canvasH) ==
    LET p == Place(f, canvasW, canvasH, f.bbox.w, f.bbox.h)
    IN  IF f.anchor = "Bleed" THEN p
        ELSE BBox(p.x, p.y, EffectiveW(f, canvasW), EffectiveH(f, canvasH))

\* layout with Bleed keeping the declared offset
layoutBleedOffset(f, canvasW, canvasH) ==
    IF f.anchor = "Bleed"
    THEN BBox(f.bbox.x, f.bbox.y, canvasW, canvasH)
    ELSE Place(f, canvasW, canvasH, EffectiveW(f, canvasW), EffectiveH(f, canvasH))

layout(f, canvasW, canvasH) ==
    Place(f, canvasW, canvasH, EffectiveW(f, canvasW), EffectiveH(f, canvasH))

\* the feature after a layout call that stores the resolved box in self.bbox
FeatureAfterLayoutStored(f, canvasW, canvasH) ==
    [f EXCEPT !.bbox = layout(f, canvasW, canvasH)]

\* the feature object after a layout call: layout assigns no attribute of self
FeatureAfterLayout(f, canvasW, canvasH) == f

----------------------------------------------------------------------------
(* Exceptions.  A ValueError carries its message; the values the f-string  *)
(* interpolates are kept in fields of their own.                           *)

NoError == [type |-> "none"]

ValueError(msg) == [type |-> "ValueError", msg |-> msg]

\* validate testing the name before the id
FeatureValidateNameFirst(f) ==
    IF f.name = "" THEN ValueError("Feature name cannot be empty")
    ELSE IF f.id = "" THEN ValueError("Feature id cannot be empty")
    ELSE IF f.bbox.w < 0 \/ f.bbox.h < 0
         THEN [type |-> "ValueError",
               msg |-> "Bounding box dimensions must be non-negative",
               bbox |-> f.bbox]
    ELSE NoError

----------------------------------------------------------------------------
(* features.py: Feature.validate *)

FeatureValidate(f) ==
    IF f.id = "" THEN ValueError("Feature id cannot be empty")
    ELSE IF f.name = "" THEN ValueError("Feature name cannot be empty")
    ELSE IF f.bbox.w < 0 \/ f.bbox.h < 0
         THEN [type |-> "ValueError",
               msg |-> "Bounding box dimensions must be non-negative",
               bbox |-> f.bbox]
    ELSE NoError

----------------------------------------------------------------------------
(* template.py *)

\* insertion of feature i behind every feature whose layer is smaller: the
\* order a sort that reverses ties would produce
InsertBeforeEqual(fs, s, i) ==
    LET k == Cardinality({j \in 1..Len(s) : fs[s[j]].layer < fs[i].layer})
    IN  SubSeq(s, 1, k) \o <<i>> \o SubSeq(s, k + 1, Len(s))

\* sorted() is stable: feature i, the last declared so far, goes behind every
\* feature whose layer is not greater
InsertByLayer(fs, s, i) ==
    LET k == Cardinality({j \in 1..Len(s) : fs[s[j]].layer <= fs[i].layer})
    IN  SubSeq(s, 1, k) \o <<i>> \o SubSeq(s, k + 1, Len(s))

RECURSIVE SortedPrefix(_, _)
SortedPrefix(fs, n) ==
    IF n = 0 THEN <<>> ELSE InsertByLayer(fs, SortedPrefix(fs, n - 1), n)

\* Template.getFeaturesByLayer: a new list of the same feature objects, each
\* named here by its position in template.features
getFeaturesByLayer(t) == SortedPrefix(t.features, Len(t.features))

\* a getFeaturesByLayer that sorts in place: self.features.sort(key=...)
TemplateAfterSortInPlace(t) ==
    [t EXCEPT !.features =
        [k \in 1..Len(t.features) |-> t.features[getFeaturesByLayer(t)[k]]]]

\* the template after getFeaturesByLayer returned: sorted() builds a new list
\* and leaves self.features as it was
TemplateAfterSort(t) == t

\* f"at index {i}" for the 0-based position i of enumerate
AtIndex(i) ==
    <<"at index 0", "at index 1", "at index 2", "at index 3", "at index 4",
      "at index 5">>[i + 1]

\* getattr(feature, "name", default): every Feature object has the attribute
\* name, set by Feature.__init__, so the default is never taken
getattrName(f, default) == f.name

\* the loop validating only the enabled features
RECURSIVE ValidateEnabledFrom(_, _)
ValidateEnabledFrom(t, i) ==
    IF i > Len(t.features) THEN NoError
    ELSE LET e == FeatureValidate(t.features[i])
         IN  IF t.features[i].enabled /\ e # NoError
             THEN [type |-> "ValueError", msg |-> "Invalid feature",
                   feature |-> t.features[i].name, cause |-> e]
             ELSE ValidateEnabledFrom(t, i + 1)

\* the loop going on after a failure and raising the last one it met
RECURSIVE ValidateFeaturesLast(_, _)
ValidateFeaturesLast(t, i) ==
    IF i > Len(t.features) THEN NoError
    ELSE LET e    == FeatureValidate(t.features[i])
             rest == ValidateFeaturesLast(t, i + 1)
         IN  IF e # NoError /\ rest = NoError
             THEN [type |-> "ValueError", msg |-> "Invalid feature",
                   feature |-> t.features[i].name, cause |-> e]
             ELSE rest

\* the loop over enumerate(self.features), from position i on
RECURSIVE ValidateFeaturesFrom(_, _)
ValidateFeaturesFrom(t, i) ==
    IF i > Len(t.features) THEN NoError
    ELSE LET e == FeatureValidate(t.features[i])
         IN  IF e # NoError
             THEN [type |-> "ValueError", msg |-> "Invalid feature",
                   feature |-> getattrName(t.features[i], AtIndex(i - 1)),
                   cause |-> e]
             ELSE ValidateFeaturesFrom(t, i + 1)

\* validate letting a side of 0 through
TemplateValidateZeroOK(t) ==
    IF t.name = "" THEN ValueError("Template name cannot be empty")
    ELSE IF t.resolution.width < 0 \/ t.resolution.height < 0
         THEN [type |-> "ValueError",
               msg |-> "Template resolution must be positive",
               resolution |-> t.resolution]
    ELSE ValidateFeaturesFrom(t, 1)

\* Template.validate: NoError, or the ValueError it raises
TemplateValidate(t) ==
    IF t.name = "" THEN ValueError("Template name cannot be empty")
    ELSE IF t.resolution.width <= 0 \/ t.resolution.height <= 0
         THEN [type |-> "ValueError",
               msg |-> "Template resolution must be positive",
               resolution |-> t.resolution]
    ELSE ValidateFeaturesFrom(t, 1)

\* the positions whose feature.validate() the loop calls, from position i on:
\* the raise ends the loop
RECURSIVE ValidatedFrom(_, _)
ValidatedFrom(t, i) ==
    IF i > Len(t.features) THEN <<>>
    ELSE IF FeatureValidate(t.features[i]) # NoError THEN <<i>>
    ELSE <<i>> \o ValidatedFrom(t, i + 1)

\* the feature.validate() calls of one Template.validate(), in order
TemplateValidateCalls(t) ==
    IF t.name = "" \/ t.resolution.width <= 0 \/ t.resolution.height <= 0
    THEN <<>>
    ELSE ValidatedFrom(t, 1)

----------------------------------------------------------------------------
(* render.py: ResourceCache, CardData, RenderContext, RenderedImage *)

\* ResourceCache.__init__
ResourceCache == [fonts |-> <<>>, images |-> <<>>]

\* the placeholder object getImage creates; ref is its identity
ImageHandle(path, ref) == [path |-> path, ref |-> ref]

\* getImage storing a new handle at every call
getImageCacheReplace(resources, path, ref) ==
    [resources EXCEPT !.images = (path :> ImageHandle(path, ref)) @@ @]

\* the cache after getImage(path), ref being the next free identity
getImageCache(resources, path, ref) ==
    IF path \in DOMAIN resources.images THEN resources
    ELSE [resources EXCEPT !.images = @ @@ (path :> ImageHandle(path, ref))]

\* the handle getImage(path) returns
getImage(resources, path, ref) == getImageCache(resources, path, ref).images[path]

\* the placeholder object getFont creates; ref is its identity
FontHandle(path, size, ref) == [path |-> path, size |-> size, ref |-> ref]

\* the cache after getFont(path, size): key = (path, size)
getFontCache(resources, path, size, ref) ==
    IF <<path, size>> \in DOMAIN resources.fonts THEN resources
    ELSE [resources EXCEPT !.fonts = @ @@ (<<path, size>> :> FontHandle(path, size, ref))]

\* the handle getFont(path, size) returns: self._fonts[key]
getFont(resources, path, size, ref) ==
    getFontCache(resources, path, size, ref).fonts[<<path, size>>]

\* the next free identity after a call that took the cache from before to after
HeapAfterGet(before, after, ref) == IF after = before THEN ref ELSE ref + 1

\* a lookup taking the default for a stored value that is empty
CardDataGetOrDefault(values, key, default) ==
    IF key \in DOMAIN values /\ values[key] # "" THEN values[key] ELSE default

\* CardData.get
CardDataGet(values, key, default) ==
    IF key \in DOMAIN values THEN values[key] ELSE default

\* the checks with the dpi tested first
RenderContextErrorDpiFirst(canvasW, canvasH, dpi) ==
    IF dpi <= 0
    THEN [type |-> "ValueError", msg |-> "dpi must be positive", dpi |-> dpi]
    ELSE IF canvasW <= 0 \/ canvasH <= 0
         THEN [type |-> "ValueError", msg |-> "Canvas dimensions must be positive",
               canvas |-> <<canvasW, canvasH>>]
    ELSE NoError

\* RenderContext.__init__: the checks
RenderContextError(canvasW, canvasH, dpi) ==
    IF canvasW <= 0 \/ canvasH <= 0
    THEN [type |-> "ValueError", msg |-> "Canvas dimensions must be positive",
          canvas |-> <<canvasW, canvasH>>]
    ELSE IF dpi <= 0
         THEN [type |-> "ValueError", msg |-> "dpi must be positive", dpi |-> dpi]
    ELSE NoError

\* an argument left out, or passed as None
NoneArg == [none |-> TRUE]

\* RenderContext.__init__: the object;
\* `resources if resources is not None else ResourceCache()`
RenderContext(canvasW, canvasH, dpi, resources, values) ==
    [canvasW |-> canvasW, canvasH |-> canvasH, dpi |-> dpi, backend |-> "Pillow",
     resources |-> IF resources = NoneArg THEN ResourceCache ELSE resources,
     data |-> values]

\* a renderer handing the cache of its previous call to the new context
RenderResourcesKept(previous) == previous

\* CardRenderer.render passes no resources to RenderContext(...), whatever the
\* previous call's context held
RenderResources(previous) == NoneArg

NoCtx == [exists |-> FALSE]

get_text_value(c, key, fallback) == CardDataGet(c.data, key, fallback)

get_image_value(c, key, fallback) == CardDataGet(c.data, key, fallback)

\* RenderedImage.__init__
RenderedImageError(width, height) ==
    IF width <= 0 \/ height <= 0
    THEN [type |-> "ValueError", msg |-> "Image dimensions must be positive",
          size |-> <<width, height>>]
    ELSE NoError

\* an image object with its sides exchanged
RenderedImageTransposed(width, height) == [width |-> height, height |-> width]

RenderedImage(width, height) == [width |-> width, height |-> height]

NoImage == [exists |-> FALSE]

----------------------------------------------------------------------------
(* features.py: TextFeature.render, ImageFeature.render.  A draw call is    *)
(* recorded with its arguments and, as `by`, the position in                *)
(* template.features of the feature whose render issued it.                 *)

\* TextFeature.render passing the declared box
TextFeatureDrawDeclared(f, i, c) ==
    [op |-> "drawText", by |-> i,
     text |-> get_text_value(c, f.textKey, f.fallbackText),
     bbox |-> f.bbox,
     style |-> f.style]

TextFeatureDraw(f, i, c) ==
    [op |-> "drawText", by |-> i,
     text |-> get_text_value(c, f.textKey, f.fallbackText),
     bbox |-> layout(f, c.canvasW, c.canvasH),
     style |-> f.style]

\* render drawing a handle made for the call instead of the cached one
ImageFeatureDrawFresh(f, i, c, ref) ==
    LET actual_bbox == layout(f, c.canvasW, c.canvasH)
        image_path == get_image_value(c, f.imageKey, f.fallbackImage)
    IN  [op |-> "drawImage", by |-> i, img |-> ImageHandle(image_path, ref + 1),
         x |-> actual_bbox.x, y |-> actual_bbox.y,
         w |-> actual_bbox.w, h |-> actual_bbox.h,
         radius |-> f.style.radius]

ImageFeatureDraw(f, i, c, ref) ==
    LET actual_bbox == layout(f, c.canvasW, c.canvasH)
        image_path == get_image_value(c, f.imageKey, f.fallbackImage)
        img == getImage(c.resources, image_path, ref)
    IN  [op |-> "drawImage", by |-> i, img |-> img,
         x |-> actual_bbox.x, y |-> actual_bbox.y,
         w |-> actual_bbox.w, h |-> actual_bbox.h,
         radius |-> f.style.radius]

\* the draw call feature.render(ctx) issues
FeatureDraw(f, i, c, ref) ==
    IF f.kind = "Text" THEN TextFeatureDraw(f, i, c)
    ELSE ImageFeatureDraw(f, i, c, ref)

\* a TextFeature.render that asks the cache for the font of its style
CtxAfterRenderWithFont(f, c, ref) ==
    IF f.kind = "Text"
    THEN [c EXCEPT !.resources = getFontCache(@, f.style.fontPath, f.style.fontSize, ref)]
    ELSE [c EXCEPT !.resources =
            getImageCache(@, get_image_value(c, f.imageKey, f.fallbackImage), ref)]

\* the context after feature.render(ctx): only an ImageFeature touches the cache
CtxAfterRender(f, c, ref) ==
    IF f.kind = "Text" THEN c
    ELSE [c EXCEPT !.resources =
            getImageCache(@, get_image_value(c, f.imageKey, f.fallbackImage), ref)]

\* handles allocated after feature.render(ctx)
HeapAfterRender(f, c, ref) ==
    IF f.kind = "Image"
       /\ get_image_value(c, f.imageKey, f.fallbackImage) \notin DOMAIN c.resources.images
    THEN ref + 1 ELSE ref

----------------------------------------------------------------------------
(* Objects the callers construct *)

\* styles.py: TextStyle and ImageStyle, as far as render.py reads them
TextStyle(fontSize) == [color |-> "#000000", fontPath |-> "", fontSize |-> fontSize]

ImageStyle(radius) == [color |-> "#FFFFFF", radius |-> radius]

\* features.py: TextFeature.__init__
TextFeature(id, name, textKey, fallbackText, style, layer, anchor, bbox, enabled) ==
    [kind |-> "Text", id |-> id, name |-> name, layer |-> layer, anchor |-> anchor,
     bbox |-> bbox, enabled |-> enabled,
     textKey |-> textKey, fallbackText |-> fallbackText, style |-> style]

\* features.py: ImageFeature.__init__
ImageFeature(id, name, imageKey, fallbackImage, style, layer, anchor, bbox, enabled) ==
    [kind |-> "Image", id |-> id, name |-> name, layer |-> layer, anchor |-> anchor,
     bbox |-> bbox, enabled |-> enabled,
     imageKey |-> imageKey, fallbackImage |-> fallbackImage, style |-> style]

\* the checks with the safeMargin tested first
TemplateInitErrorMarginFirst(dpi, safeMargin, bleed) ==
    IF safeMargin < 0
    THEN [type |-> "ValueError", msg |-> "safeMargin must be non-negative",
          got |-> safeMargin]
    ELSE IF dpi <= 0
    THEN [type |-> "ValueError", msg |-> "dpi must be positive", got |-> dpi]
    ELSE IF bleed < 0
    THEN [type |-> "ValueError", msg |-> "bleed must be non-negative", got |-> bleed]
    ELSE NoError

\* template.py: Template.__init__, the checks
TemplateInitError(dpi, safeMargin, bleed) ==
    IF dpi <= 0
    THEN [type |-> "ValueError", msg |-> "dpi must be positive", got |-> dpi]
    ELSE IF safeMargin < 0
    THEN [type |-> "ValueError", msg |-> "safeMargin must be non-negative",
          got |-> safeMargin]
    ELSE IF bleed < 0
    THEN [type |-> "ValueError", msg |-> "bleed must be non-negative", got |-> bleed]
    ELSE NoError

\* template.py: Template.__init__, the object
TemplateOf(name, resolution, dpi, safeMargin, bleed, features) ==
    [name |-> name, resolution |-> resolution, dpi |-> dpi,
     safeMargin |-> safeMargin, bleed |-> bleed, features |-> features]

\* no Template object: the constructor has not run, or has raised
NoTemplate == [exists |-> FALSE]

\* template.py: Template.__init__ with the default dpi, safeMargin and bleed
Template(name, resolution, features) ==
    [name |-> name, resolution |-> resolution, dpi |-> 300,
     safeMargin |-> 0, bleed |-> 0, features |-> features]

\* the features the templates of Spec are built from
FeaturePool ==
    { TextFeature("title", "Title", "title", "", TextStyle(12),
                  0, "TopLeft", BBox(10, 10, 200, 50), TRUE),
      ImageFeature("art", "Art", "art", "default.png", ImageStyle(4),
                   -1, "Center", BBox(0, 0, 100, 50), TRUE),
      TextFeature("sub", "Subtitle", "subtitle", "N/A", TextStyle(24),
                  0, "BottomRight", BBox(0, 0, 0, 0), FALSE),
      TextFeature("", "Ghost", "title", "", TextStyle(12),
                  1, "Top", BBox(0, 0, 0, 0), FALSE),
      ImageFeature("frame", "Frame", "frame", "default.png", ImageStyle(0),
                   1, "Bleed", BBox(5, 5, -1, 20), TRUE),
      TextFeature("foot", "Footer", "title", "-", TextStyle(12),
                  1, "Right", BBox(-2, 3, 0, 50), TRUE),
      TextFeature("anon", "", "title", "?", TextStyle(12),
                  0, "Left", BBox(0, 0, 10, 10), TRUE) }

FeatureLists == UNION {[1..n -> FeaturePool] : n \in 0..MaxFeatures}

Resolutions == {Resolution(800, 600), Resolution(3, 2),
                Resolution(0, 600), Resolution(800, -100)}

Keys == {"title", "art"}

\* CardData.values: the mappings the cards are rendered with
DataPool ==
    { [k \in {} |-> ""],
      [k \in Keys |-> IF k = "title" THEN "Test Title" ELSE "art.png"],
      [k \in {"title"} |-> ""] }

\* the features whose methods SpecFeature calls directly
DirectBoxes == {BBox(0, 0, 100, 50), BBox(1, -1, 0, 3), BBox(0, 2, -1, 0)}

DirectPool ==
    FeaturePool
    \cup {TextFeature("t", "T", "title", "none", TextStyle(12), 0, a, b, TRUE) :
            a \in Anchor, b \in DirectBoxes}
    \cup {ImageFeature("i", "I", "art", "default.png", ImageStyle(2), 0, a, b, TRUE) :
            a \in Anchor, b \in DirectBoxes}

DirectCanvases == {<<800, 600>>, <<3, 2>>}

ProbeCanvases == {<<800, 600>>, <<3, 2>>, <<2, 3>>}

\* the inputs of SpecLayout
Offsets == (-MaxOffset)..MaxOffset

DeclaredW == ((-1)..MaxSize) \cup {100}

DeclaredH == ((-1)..MaxSize) \cup {50}

CanvasWs == (0..MaxCanvas) \cup {800}

CanvasHs == (0..MaxCanvas) \cup {600}

LayoutPool ==
    {TextFeature("t", "T", "title", "", TextStyle(12), 0, a, BBox(x, y, w, h), TRUE) :
        a \in Anchor, x \in Offsets, y \in Offsets, w \in DeclaredW, h \in DeclaredH}

\* the features SpecValidate validates: every fault alone and together with
\* the others, under fields validate() does not read
ValidateAnchors == {"TopLeft", "Center", "Bleed"}

ValidatePool ==
    UNION {
        { TextFeature(id, name, "title", "", TextStyle(12), l, a, BBox(x, 0, w, h), en),
          ImageFeature(id, name, "art", "default.png", ImageStyle(0), l, a,
                       BBox(x, 0, w, h), en) } :
        id \in {"", "hp"}, name \in {"", "HP"}, l \in {0, 2}, a \in ValidateAnchors,
        x \in {-MaxOffset, 0}, w \in (-1)..MaxSize, h \in (-1)..MaxSize,
        en \in BOOLEAN }

\* the files that exist where the paths point
Files == {"art.png", "font.ttf"}

\* the paths SpecResources asks the cache for
CachePaths == Files \cup {"missing.png"}

FontSizes == {12, 24}

\* the calls the threads of SpecThreads make
ThreadCalls ==
    {[op |-> "getImage", key |-> <<p>>] : p \in Files}
    \cup {[op |-> "getFont", key |-> <<"font.ttf", size>>] : size \in FontSizes}

\* a thread that has not called the cache yet
Idle == [pc |-> "idle", op |-> "none", key |-> <<>>]

\* the features of the templates rendered again and again in SpecRepeat
RepeatPool ==
    { f \in FeaturePool : f.id \in {"title", "art", "frame"} }
    \cup { ImageFeature("back", "Back", "back", "back.png", ImageStyle(0),
                        -2, "Bleed", BBox(0, 0, 0, 0), FALSE),
           ImageFeature("badge", "Badge", "badge", "default.png", ImageStyle(2),
                        2, "TopRight", BBox(4, 4, 32, 32), TRUE) }

RepeatLists == UNION {[1..n -> RepeatPool] : n \in 0..MaxFeatures}

\* the arguments SpecContext constructs contexts with
ContextWs == ((-1)..MaxCanvas) \cup {800}

ContextHs == ((-1)..MaxCanvas) \cup {600}

ContextDpis == {-1, 0, 72, 300}

\* the keys and fallbacks SpecData looks up
LookupKeys == Keys \cup {"subtitle"}

Fallbacks == {"", "N/A"}

\* the arguments SpecTemplate constructs templates with
TemplateNames == {"", "Test Card"}

TemplateDpis == {-1, 0, 72, 300}

TemplateMargins == {-1, 0, 5}

TemplateBleeds == {-1, 0, 3}

TemplateFeatures == {<<>>} \cup {<<f>> : f \in FeaturePool}

\* the resolutions SpecAspect asks the aspect of: every small one, and the
\* ones of the tests
AspectResolutions ==
    {Resolution(w, h) : w \in 1..MaxAspectSide, h \in 1..MaxAspectSide}
    \cup {Resolution(1920, 1080), Resolution(1000, 1000), Resolution(2100, 2970),
          Resolution(800, 600)}

NotCalled == [type |-> "notcalled"]

NotSorted == [called |-> FALSE, result |-> <<>>]

----------------------------------------------------------------------------
(* Initial states *)

\* no render call has run, the caller's cache is new, nobody is inside it
InitRest ==
    /\ validated = <<>>
    /\ renderNo = 1
    /\ prior = ResourceCache
    /\ cache = ResourceCache
    /\ cacheLog = <<>>
    /\ threads = <<>>
    /\ lastCall = NotCalled
    /\ raised = NoError

\* before CardRenderer.render(template, data, cfg)
Init ==
    /\ template \in {Template(n, r, fs) :
                        n \in {"", "Test Card"}, r \in Resolutions, fs \in FeatureLists}
    /\ data \in DataPool
    /\ pc = "Unvalidated"
    /\ ctx = NoCtx
    /\ byLayer = <<>>
    /\ idx = 1
    /\ draws = <<>>
    /\ image = NoImage
    /\ error = NoError
    /\ heap = 0
    /\ layoutLog = <<>>
    /\ verdict = NotCalled
    /\ sortedOut = NotSorted
    /\ InitRest

\* before the first of several CardRenderer.render calls on one template
InitRepeat ==
    /\ template \in {Template("Test Card", Resolution(800, 600), fs) : fs \in RepeatLists}
    /\ data \in DataPool
    /\ pc = "Unvalidated"
    /\ ctx = NoCtx
    /\ byLayer = <<>>
    /\ idx = 1
    /\ draws = <<>>
    /\ image = NoImage
    /\ error = NoError
    /\ heap = 0
    /\ layoutLog = <<>>
    /\ verdict = NotCalled
    /\ sortedOut = NotSorted
    /\ InitRest

\* one feature and a RenderContext the caller has constructed
InitFeature ==
    /\ \E f \in DirectPool, c \in DirectCanvases :
          /\ template = Template("Direct", Resolution(c[1], c[2]), <<f>>)
          /\ \E d \in DataPool :
                /\ data = d
                /\ ctx = RenderContext(c[1], c[2], 300, ResourceCache, d)
    /\ pc = "Direct"
    /\ byLayer = <<>>
    /\ idx = 1
    /\ draws = <<>>
    /\ image = NoImage
    /\ error = NoError
    /\ heap = 0
    /\ layoutLog = <<>>
    /\ verdict = NotCalled
    /\ sortedOut = NotSorted
    /\ InitRest

\* one feature, no context
InitLayout ==
    /\ template \in {Template("Layout", Resolution(800, 600), <<f>>) : f \in LayoutPool}
    /\ data = [k \in {} |-> ""]
    /\ pc = "Direct"
    /\ ctx = NoCtx
    /\ byLayer = <<>>
    /\ idx = 1
    /\ draws = <<>>
    /\ image = NoImage
    /\ error = NoError
    /\ heap = 0
    /\ layoutLog = <<>>
    /\ verdict = NotCalled
    /\ sortedOut = NotSorted
    /\ InitRest

\* one feature, as constructed: Feature.__init__ checks nothing
InitValidate ==
    /\ template \in {Template("Direct", Resolution(800, 600), <<f>>) : f \in ValidatePool}
    /\ data = [k \in {} |-> ""]
    /\ pc = "Direct"
    /\ ctx = NoCtx
    /\ byLayer = <<>>
    /\ idx = 1
    /\ draws = <<>>
    /\ image = NoImage
    /\ error = NoError
    /\ heap = 0
    /\ layoutLog = <<>>
    /\ verdict = NotCalled
    /\ sortedOut = NotSorted
    /\ InitRest

\* a caller holding a new ResourceCache
InitResources ==
    /\ template = Template("Direct", Resolution(800, 600), <<>>)
    /\ data \in DataPool
    /\ pc = "Caller"
    /\ ctx = NoCtx
    /\ byLayer = <<>>
    /\ idx = 1
    /\ draws = <<>>
    /\ image = NoImage
    /\ error = NoError
    /\ heap = 0
    /\ layoutLog = <<>>
    /\ verdict = NotCalled
    /\ sortedOut = NotSorted
    /\ InitRest

\* a caller that has constructed nothing yet
InitTemplate ==
    /\ template = NoTemplate
    /\ data = [k \in {} |-> ""]
    /\ pc = "Caller"
    /\ ctx = NoCtx
    /\ byLayer = <<>>
    /\ idx = 1
    /\ draws = <<>>
    /\ image = NoImage
    /\ error = NoError
    /\ heap = 0
    /\ layoutLog = <<>>
    /\ verdict = NotCalled
    /\ sortedOut = NotSorted
    /\ InitRest

\* a Resolution, held by a template
InitAspect ==
    /\ template \in {Template("Aspect", r, <<>>) : r \in AspectResolutions}
    /\ data = [k \in {} |-> ""]
    /\ pc = "Caller"
    /\ ctx = NoCtx
    /\ byLayer = <<>>
    /\ idx = 1
    /\ draws = <<>>
    /\ image = NoImage
    /\ error = NoError
    /\ heap = 0
    /\ layoutLog = <<>>
    /\ verdict = NotCalled
    /\ sortedOut = NotSorted
    /\ InitRest

\* threads sharing one new ResourceCache
InitThreads ==
    /\ template = Template("Direct", Resolution(800, 600), <<>>)
    /\ data = [k \in {} |-> ""]
    /\ pc = "Threads"
    /\ ctx = NoCtx
    /\ byLayer = <<>>
    /\ idx = 1
    /\ draws = <<>>
    /\ image = NoImage
    /\ error = NoError
    /\ heap = 0
    /\ layoutLog = <<>>
    /\ verdict = NotCalled
    /\ sortedOut = NotSorted
    /\ validated = <<>>
    /\ renderNo = 1
    /\ prior = ResourceCache
    /\ cache = ResourceCache
    /\ cacheLog = <<>>
    /\ threads = [t \in 1..MaxThreads |-> Idle]
    /\ lastCall = NotCalled
    /\ raised = NoError

----------------------------------------------------------------------------
(* Direct calls of a feature's and a template's methods *)

\* the template after feature i's layout(canvasW, canvasH) returned
TemplateAfterLayout(t, i, canvasW, canvasH) ==
    [t EXCEPT !.features[i] = FeatureAfterLayout(@, canvasW, canvasH)]

\* template.features[1].layout(canvasW, canvasH)
LayoutCall(canvasW, canvasH) ==
    /\ pc = "Direct"
    /\ Len(layoutLog) < MaxLayoutCalls
    /\ layoutLog' = Append(layoutLog,
                           [canvasW |-> canvasW, canvasH |-> canvasH,
                            out |-> layout(template.features[1], canvasW, canvasH),
                            renders |-> Len(draws)])
    /\ template' = TemplateAfterLayout(template, 1, canvasW, canvasH)
    /\ UNCHANGED <<data, pc, ctx, byLayer, idx, draws, image, error, heap,
                   verdict, sortedOut>>
    /\ UNCHANGED <<callVars, resourceVars>>

\* template.features[1].validate()
ValidateCall ==
    /\ pc = "Direct"
    /\ verdict' = FeatureValidate(template.features[1])
    /\ UNCHANGED <<template, data, pc, ctx, byLayer, idx, draws, image, error, heap,
                   layoutLog, sortedOut>>
    /\ UNCHANGED <<callVars, resourceVars>>

\* template.features[1].render(ctx)
RenderCall ==
    /\ pc = "Direct"
    /\ Len(draws) < MaxRenders
    /\ draws' = Append(draws, FeatureDraw(template.features[1], 1, ctx, heap))
    /\ ctx' = CtxAfterRender(template.features[1], ctx, heap)
    /\ heap' = HeapAfterRender(template.features[1], ctx, heap)
    /\ template' = TemplateAfterLayout(template, 1, ctx.canvasW, ctx.canvasH)
    /\ UNCHANGED <<data, pc, byLayer, idx, image, error, layoutLog, verdict, sortedOut>>
    /\ UNCHANGED <<callVars, resourceVars>>

\* template.getFeaturesByLayer(), called by the user at any point of the render
GetFeaturesByLayerCall ==
    /\ pc # "Direct"
    /\ sortedOut = NotSorted
    /\ sortedOut' = [called |-> TRUE, result |-> getFeaturesByLayer(template)]
    /\ template' = TemplateAfterSort(template)
    /\ UNCHANGED <<data, pc, ctx, byLayer, idx, draws, image, error, heap,
                   layoutLog, verdict>>
    /\ UNCHANGED <<callVars, resourceVars>>

----------------------------------------------------------------------------
(* render.py: direct calls of the caller's ResourceCache *)

\* cache.getImage(path), from one thread
GetImageCall(path) ==
    /\ pc = "Caller"
    /\ Len(cacheLog) < MaxCacheCalls
    /\ cache' = getImageCache(cache, path, heap)
    /\ heap' = HeapAfterGet(cache, cache', heap)
    /\ cacheLog' = Append(cacheLog, [op |-> "getImage", key |-> <<path>>,
                                     ret |-> getImage(cache, path, heap)])
    /\ UNCHANGED <<template, data, pc, ctx, byLayer, idx, draws, image, error,
                   layoutLog, verdict, sortedOut>>
    /\ UNCHANGED <<callVars, threads, lastCall>>

\* cache.getFont(path, size), from one thread
GetFontCall(path, size) ==
    /\ pc = "Caller"
    /\ Len(cacheLog) < MaxCacheCalls
    /\ cache' = getFontCache(cache, path, size, heap)
    /\ heap' = HeapAfterGet(cache, cache', heap)
    /\ cacheLog' = Append(cacheLog, [op |-> "getFont", key |-> <<path, size>>,
                                     ret |-> getFont(cache, path, size, heap)])
    /\ UNCHANGED <<template, data, pc, ctx, byLayer, idx, draws, image, error,
                   layoutLog, verdict, sortedOut>>
    /\ UNCHANGED <<callVars, threads, lastCall>>

\* RenderContext(canvasW, canvasH, dpi, data=data): ctx is the object the call
\* evaluates to, error what it raised
NewContextCall(canvasW, canvasH, dpi) ==
    /\ pc = "Caller"
    /\ lastCall' = [canvasW |-> canvasW, canvasH |-> canvasH, dpi |-> dpi]
    /\ LET e == RenderContextError(canvasW, canvasH, dpi)
       IN  /\ error' = e
           /\ ctx' = IF e = NoError
                     THEN RenderContext(canvasW, canvasH, dpi, NoneArg, data)
                     ELSE NoCtx
    /\ UNCHANGED <<template, data, pc, byLayer, idx, draws, image, heap,
                   layoutLog, verdict, sortedOut>>
    /\ UNCHANGED <<callVars, cache, cacheLog, threads>>

\* CardData(values).get(key, default), on the mapping the context was built with
GetCall(key, default) ==
    /\ pc = "Direct"
    /\ lastCall' = [op |-> "get", key |-> key, fallback |-> default,
                    ret |-> CardDataGet(data, key, default)]
    /\ UNCHANGED <<template, data, pc, ctx, byLayer, idx, draws, image, error, heap,
                   layoutLog, verdict, sortedOut>>
    /\ UNCHANGED <<callVars, cache, cacheLog, threads>>

\* ctx.get_text_value(key, fallback)
GetTextValueCall(key, fallback) ==
    /\ pc = "Direct"
    /\ lastCall' = [op |-> "get_text_value", key |-> key, fallback |-> fallback,
                    ret |-> get_text_value(ctx, key, fallback)]
    /\ UNCHANGED <<template, data, pc, ctx, byLayer, idx, draws, image, error, heap,
                   layoutLog, verdict, sortedOut>>
    /\ UNCHANGED <<callVars, cache, cacheLog, threads>>

\* ctx.get_image_value(key, fallback)
GetImageValueCall(key, fallback) ==
    /\ pc = "Direct"
    /\ lastCall' = [op |-> "get_image_value", key |-> key, fallback |-> fallback,
                    ret |-> get_image_value(ctx, key, fallback)]
    /\ UNCHANGED <<template, data, pc, ctx, byLayer, idx, draws, image, error, heap,
                   layoutLog, verdict, sortedOut>>
    /\ UNCHANGED <<callVars, cache, cacheLog, threads>>

\* template = Template(name, resolution, dpi, safeMargin, bleed, features):
\* template is the object the call evaluates to, error what it raised
NewTemplateCall(name, resolution, dpi, safeMargin, bleed, features) ==
    /\ pc = "Caller"
    /\ lastCall' = [op |-> "Template", name |-> name, resolution |-> resolution,
                    dpi |-> dpi, safeMargin |-> safeMargin, bleed |-> bleed,
                    features |-> features]
    /\ LET e == TemplateInitError(dpi, safeMargin, bleed)
       IN  /\ error' = e
           /\ template' = IF e = NoError
                          THEN TemplateOf(name, resolution, dpi, safeMargin, bleed,
                                          features)
                          ELSE NoTemplate
    /\ verdict' = NotCalled
    /\ UNCHANGED <<data, pc, ctx, byLayer, idx, draws, image, heap,
                   layoutLog, sortedOut>>
    /\ UNCHANGED <<callVars, cache, cacheLog, threads>>

\* template.resolution.aspect()
AspectCall ==
    /\ pc = "Caller"
    /\ template # NoTemplate
    /\ lastCall' = [op |-> "aspect", ret |-> aspect(template.resolution)]
    /\ UNCHANGED <<template, data, pc, ctx, byLayer, idx, draws, image, error, heap,
                   layoutLog, verdict, sortedOut>>
    /\ UNCHANGED <<callVars, cache, cacheLog, threads>>

\* template.validate(), called by the caller on the template it constructed
TemplateValidateCall ==
    /\ pc = "Caller"
    /\ template # NoTemplate
    /\ verdict' = TemplateValidate(template)
    /\ UNCHANGED <<template, data, pc, ctx, byLayer, idx, draws, image, error, heap,
                   layoutLog, sortedOut>>
    /\ UNCHANGED <<callVars, resourceVars>>

----------------------------------------------------------------------------
(* render.py: getFont / getImage statement by statement, as threads sharing   *)
(* the cache run them: the methods take no lock                               *)

\* what the threads' steps leave alone
ThreadFrame ==
    UNCHANGED <<template, data, pc, ctx, byLayer, idx, draws, image, error,
                layoutLog, verdict, sortedOut, callVars, lastCall>>

\* the entry of the thread's key, if the cache has one
HasEntry(c) ==
    IF c.op = "getImage" THEN c.key[1] \in DOMAIN cache.images
    ELSE c.key \in DOMAIN cache.fonts

\* thread t calls getImage(path) or getFont(path, size)
ThreadEnter(t, c) ==
    /\ pc = "Threads"
    /\ threads[t].pc = "idle"
    /\ threads' = [threads EXCEPT ![t] = [pc |-> "check", op |-> c.op, key |-> c.key]]
    /\ UNCHANGED <<cache, cacheLog, heap>>
    /\ ThreadFrame

\* `if key not in self._fonts:` / `if path not in self._images:`
ThreadCheck(t) ==
    /\ pc = "Threads"
    /\ threads[t].pc = "check"
    /\ threads' = [threads EXCEPT ![t].pc = IF HasEntry(threads[t]) THEN "return"
                                            ELSE "store"]
    /\ UNCHANGED <<cache, cacheLog, heap>>
    /\ ThreadFrame

\* `self._fonts[key] = {...}` / `self._images[path] = {...}`: a new object,
\* assigned whatever the dictionary holds by now
ThreadStore(t) ==
    /\ pc = "Threads"
    /\ threads[t].pc = "store"
    /\ LET c == threads[t]
       IN  cache' = IF c.op = "getImage"
                    THEN [cache EXCEPT !.images =
                             (c.key[1] :> ImageHandle(c.key[1], heap)) @@ @]
                    ELSE [cache EXCEPT !.fonts =
                             (c.key :> FontHandle(c.key[1], c.key[2], heap)) @@ @]
    /\ heap' = heap + 1
    /\ threads' = [threads EXCEPT ![t].pc = "return"]
    /\ UNCHANGED cacheLog
    /\ ThreadFrame

\* `return self._fonts[key]` / `return self._images[path]`
ThreadReturn(t) ==
    /\ pc = "Threads"
    /\ threads[t].pc = "return"
    /\ LET c == threads[t]
       IN  cacheLog' = Append(cacheLog,
                              [op |-> c.op, key |-> c.key,
                               ret |-> IF c.op = "getImage" THEN cache.images[c.key[1]]
                                       ELSE cache.fonts[c.key]])
    /\ threads' = [threads EXCEPT ![t].pc = "done"]
    /\ UNCHANGED <<cache, heap>>
    /\ ThreadFrame

----------------------------------------------------------------------------
(* render.py: CardRenderer.render, step by step *)

\* render going on after a failed template.validate()
RenderValidateSwallowed ==
    /\ pc = "Unvalidated"
    /\ pc' = "Validated"
    /\ UNCHANGED <<template, data, ctx, byLayer, idx, draws, image, error, heap,
                   layoutLog, verdict, sortedOut>>
    /\ UNCHANGED <<callVars, resourceVars>>

\* template.validate(); its ValueError leaves render
RenderValidate ==
    /\ pc = "Unvalidated"
    /\ LET e == TemplateValidate(template)
       IN  IF e = NoError
           THEN pc' = "Validated" /\ error' = error
           ELSE pc' = "Failed" /\ error' = e
    /\ validated' = TemplateValidateCalls(template)
    /\ UNCHANGED <<template, data, ctx, byLayer, idx, draws, image, heap,
                   layoutLog, verdict, sortedOut>>
    /\ UNCHANGED <<renderNo, prior, raised, resourceVars>>

\* ctx = RenderContext(...), then template.getFeaturesByLayer() for _composeLayers
RenderBuildContext ==
    /\ pc = "Validated"
    /\ LET e == RenderContextError(template.resolution.width,
                                   template.resolution.height, template.dpi)
       IN  IF e = NoError
           THEN /\ ctx' = RenderContext(template.resolution.width,
                                        template.resolution.height,
                                        template.dpi, RenderResources(prior), data)
                /\ byLayer' = getFeaturesByLayer(template)
                /\ template' = TemplateAfterSort(template)
                /\ idx' = 1
                /\ pc' = "ContextBuilt"
                /\ error' = error
           ELSE /\ pc' = "Failed"
                /\ error' = e
                /\ UNCHANGED <<template, ctx, byLayer, idx>>
    /\ UNCHANGED <<data, draws, image, heap, layoutLog, verdict, sortedOut>>
    /\ UNCHANGED <<callVars, resourceVars>>

\* _composeLayers skipping every feature
ComposeFilterNone(f) == TRUE

\* _composeLayers: `if feature.enabled`
ComposeFilter(f) == f.enabled

\* one iteration of _composeLayers' loop
ComposeStep ==
    /\ pc = "ContextBuilt"
    /\ idx <= Len(byLayer)
    /\ LET i == byLayer[idx]
           f == template.features[i]
       IN  IF ComposeFilter(f)
           THEN /\ draws' = Append(draws, FeatureDraw(f, i, ctx, heap))
                /\ ctx' = CtxAfterRender(f, ctx, heap)
                /\ heap' = HeapAfterRender(f, ctx, heap)
                /\ template' = TemplateAfterLayout(template, i, ctx.canvasW, ctx.canvasH)
           ELSE UNCHANGED <<draws, ctx, heap, template>>
    /\ idx' = idx + 1
    /\ UNCHANGED <<data, pc, byLayer, image, error, layoutLog, verdict, sortedOut>>
    /\ UNCHANGED <<callVars, resourceVars>>

\* what the image loader and the drawing surface can raise while f renders:
\* a load failure for the path an ImageFeature resolves, a failure of the draw
BackendErrors(f, c) ==
    {[type |-> "DrawError", msg |-> "backend drawing failure"]}
    \cup IF f.kind = "Image"
         THEN {[type |-> "FileNotFoundError", msg |-> "image file does not exist",
                path |-> get_image_value(c, f.imageKey, f.fallbackImage)]}
         ELSE {}

\* a loop that goes on to the next feature when feature.render(ctx) raises e
ComposeStepRaiseSkipped(e) ==
    /\ pc = "ContextBuilt"
    /\ idx <= Len(byLayer)
    /\ ComposeFilter(template.features[byLayer[idx]])
    /\ e \in BackendErrors(template.features[byLayer[idx]], ctx)
    /\ raised' = e
    /\ idx' = idx + 1
    /\ UNCHANGED <<template, data, pc, ctx, byLayer, draws, image, error, heap,
                   layoutLog, verdict, sortedOut>>
    /\ UNCHANGED <<validated, renderNo, prior, resourceVars>>

\* one iteration of _composeLayers' loop in which feature.render(ctx) raises e:
\* neither _composeLayers nor render has a try, so e leaves render as it is;
\* when it is the draw that fails, layout and the image look-up have run
ComposeStepRaise(e) ==
    /\ pc = "ContextBuilt"
    /\ idx <= Len(byLayer)
    /\ LET i == byLayer[idx]
           f == template.features[i]
       IN  /\ ComposeFilter(f)
           /\ e \in BackendErrors(f, ctx)
           /\ IF e.type = "DrawError"
              THEN /\ ctx' = CtxAfterRender(f, ctx, heap)
                   /\ heap' = HeapAfterRender(f, ctx, heap)
              ELSE UNCHANGED <<ctx, heap>>
           /\ template' = TemplateAfterLayout(template, i, ctx.canvasW, ctx.canvasH)
    /\ raised' = e
    /\ error' = e
    /\ pc' = "Failed"
    /\ UNCHANGED <<data, byLayer, idx, draws, image, layoutLog, verdict, sortedOut>>
    /\ UNCHANGED <<validated, renderNo, prior, resourceVars>>

\* _composeLayers returns
ComposeReturn ==
    /\ pc = "ContextBuilt"
    /\ idx > Len(byLayer)
    /\ pc' = "Composed"
    /\ UNCHANGED <<template, data, ctx, byLayer, idx, draws, image, error, heap,
                   layoutLog, verdict, sortedOut>>
    /\ UNCHANGED <<callVars, resourceVars>>

\* render returning the image as soon as the context is built
RenderFinishEarly ==
    /\ pc = "ContextBuilt"
    /\ image' = RenderedImage(template.resolution.width, template.resolution.height)
    /\ pc' = "Done"
    /\ UNCHANGED <<template, data, ctx, byLayer, idx, draws, heap, error,
                   layoutLog, verdict, sortedOut>>
    /\ UNCHANGED <<callVars, resourceVars>>

\* return RenderedImage(width, height)
RenderFinish ==
    /\ pc = "Composed"
    /\ LET e == RenderedImageError(template.resolution.width, template.resolution.height)
       IN  IF e = NoError
           THEN /\ image' = RenderedImage(template.resolution.width,
                                          template.resolution.height)
                /\ pc' = "Done"
                /\ error' = error
           ELSE /\ pc' = "Failed"
                /\ error' = e
                /\ image' = image
    /\ UNCHANGED <<template, data, ctx, byLayer, idx, draws, heap,
                   layoutLog, verdict, sortedOut>>
    /\ UNCHANGED <<callVars, resourceVars>>

\* render has returned or raised, and the caller calls render again with the
\* same template and some data: the locals of the finished call are gone
RenderAgain ==
    /\ pc \in {"Done", "Failed"}
    /\ renderNo < MaxRenderCalls
    /\ renderNo' = renderNo + 1
    /\ prior' = IF ctx = NoCtx THEN prior ELSE ctx.resources
    /\ data' \in DataPool
    /\ pc' = "Unvalidated"
    /\ ctx' = NoCtx
    /\ byLayer' = <<>>
    /\ idx' = 1
    /\ draws' = <<>>
    /\ image' = NoImage
    /\ error' = NoError
    /\ validated' = <<>>
    /\ raised' = NoError
    /\ UNCHANGED <<template, heap, layoutLog, verdict, sortedOut, resourceVars>>

----------------------------------------------------------------------------
(* Specifications *)

Next ==
    \/ GetFeaturesByLayerCall
    \/ RenderValidate
    \/ RenderBuildContext
    \/ ComposeStep
    \/ ComposeReturn
    \/ RenderFinish

Spec == Init /\ [][Next]_vars

NextFeature ==
    \/ \E c \in ProbeCanvases : LayoutCall(c[1], c[2])
    \/ ValidateCall
    \/ RenderCall

SpecFeature == InitFeature /\ [][NextFeature]_vars

NextLayout ==
    \E canvasW \in CanvasWs, canvasH \in CanvasHs :
        layoutLog = <<>> /\ LayoutCall(canvasW, canvasH)

SpecLayout == InitLayout /\ [][NextLayout]_vars

NextValidate == ValidateCall

SpecValidate == InitValidate /\ [][NextValidate]_vars

\* the errors of every feature of the pool
AllBackendErrors ==
    UNION {BackendErrors(f, [data |-> d]) : f \in FeaturePool, d \in DataPool}

NextBackend ==
    \/ Next
    \/ \E e \in AllBackendErrors : ComposeStepRaise(e)

SpecBackend == Init /\ [][NextBackend]_vars

NextRepeat == Next \/ RenderAgain

SpecRepeat == InitRepeat /\ [][NextRepeat]_vars

NextResources ==
    \/ \E path \in CachePaths : GetImageCall(path)
    \/ \E path \in CachePaths, size \in FontSizes : GetFontCall(path, size)

SpecResources == InitResources /\ [][NextResources]_vars

NextContext ==
    \E canvasW \in ContextWs, canvasH \in ContextHs, dpi \in ContextDpis :
        NewContextCall(canvasW, canvasH, dpi)

SpecContext == InitResources /\ [][NextContext]_vars

NextData ==
    \E key \in LookupKeys, fallback \in Fallbacks :
        \/ GetCall(key, fallback)
        \/ GetTextValueCall(key, fallback)
        \/ GetImageValueCall(key, fallback)

SpecData == InitFeature /\ [][NextData]_vars

NextTemplate ==
    \/ \E name \in TemplateNames, resolution \in Resolutions, dpi \in TemplateDpis,
          safeMargin \in TemplateMargins, bleed \in TemplateBleeds,
          features \in TemplateFeatures :
            /\ lastCall = NotCalled
            /\ NewTemplateCall(name, resolution, dpi, safeMargin, bleed, features)
    \/ TemplateValidateCall

SpecTemplate == InitTemplate /\ [][NextTemplate]_vars

NextAspect == AspectCall

SpecAspect == InitAspect /\ [][NextAspect]_vars

NextThreads ==
    \E t \in 1..MaxThreads :
        \/ \E c \in ThreadCalls : ThreadEnter(t, c)
        \/ ThreadCheck(t)
        \/ ThreadStore(t)
        \/ ThreadReturn(t)

SpecThreads == InitThreads /\ [][NextThreads]_vars

----------------------------------------------------------------------------
(* Vocabulary of the properties *)

RenderStarted == pc \in {"ContextBuilt", "Composed", "Done"}

ComposeOver == pc \in {"Composed", "Done"}

\* a feature in the terms of its declared fields
DeclaredOK(f) == f.id # "" /\ f.name # "" /\ f.bbox.w >= 0 /\ f.bbox.h >= 0

TemplateLevelOK(t) ==
    t.name # "" /\ t.resolution.width > 0 /\ t.resolution.height > 0

LayerOf(i) == template.features[i].layer

\* s lists every position of fs once, by ascending layer, ties in declaration order
IsStableLayerOrder(fs, s) ==
    /\ Len(s) = Len(fs)
    /\ {s[k] : k \in DOMAIN s} = DOMAIN fs
    /\ \A k, l \in DOMAIN s :
          k < l => \/ fs[s[k]].layer < fs[s[l]].layer
                   \/ fs[s[k]].layer = fs[s[l]].layer /\ s[k] < s[l]

\* the one feature of SpecLayout and SpecFeature
TheFeature == template.features[1]

\* floor(a / 2) = q, without a division
IsFloorHalf(a, q) == 2 * q <= a /\ a <= 2 * q + 1

ResolvedW(f, e) == IF f.bbox.w > 0 THEN f.bbox.w ELSE e.canvasW

ResolvedH(f, e) == IF f.bbox.h > 0 THEN f.bbox.h ELSE e.canvasH

----------------------------------------------------------------------------
(* C1: render issues exactly one draw call for each enabled feature and none *)
(* for a disabled one, and the draw calls come by ascending layer, features  *)
(* of equal layer in declaration order.                                      *)
C1_DrawsFollowLayers ==
    /\ \A k \in DOMAIN draws : template.features[draws[k].by].enabled
    /\ \A k, l \in DOMAIN draws :
          k < l => \/ LayerOf(draws[k].by) < LayerOf(draws[l].by)
                   \/ /\ LayerOf(draws[k].by) = LayerOf(draws[l].by)
                      /\ draws[k].by < draws[l].by
    /\ ComposeOver =>
          /\ \A i \in DOMAIN template.features :
                template.features[i].enabled => \E k \in DOMAIN draws : draws[k].by = i
          /\ Len(draws) =
                Len(template.features)
                - Cardinality({i \in DOMAIN template.features :
                                  ~template.features[i].enabled})

C1_Witness ==
    /\ pc = "Done"
    /\ Len(template.features) = 3
    /\ Len(draws) = 2
    /\ draws[1].by > draws[2].by
    /\ \E i \in DOMAIN template.features : ~template.features[i].enabled

(* C2: getFeaturesByLayer returns a permutation of the feature list by       *)
(* ascending layer in which features of equal layer keep their declaration   *)
(* order, for every feature list.                                            *)
C2_StableLayerSort ==
    /\ sortedOut.called => IsStableLayerOrder(template.features, sortedOut.result)
    /\ RenderStarted => IsStableLayerOrder(template.features, byLayer)

C2_Witness ==
    /\ sortedOut.called
    /\ sortedOut.result = <<3, 1, 2>>
    /\ LayerOf(3) < 0
    /\ LayerOf(1) = LayerOf(2)
    /\ template.features[1] # template.features[2]

(* C3, as claimed: a declared width or height of 0 becomes the canvas        *)
(* dimension and every non-zero declared dimension passes through unchanged. *)
C3_NonZeroPassesThrough ==
    \A k \in DOMAIN layoutLog :
        LET e == layoutLog[k]
            b == TheFeature.bbox
        IN  /\ e.out.w = IF b.w = 0 THEN e.canvasW ELSE b.w
            /\ e.out.h = IF b.h = 0 THEN e.canvasH ELSE b.h

(* C3, amended: under every anchor but Bleed a declared width <= 0 becomes   *)
(* canvasW and a declared height <= 0 becomes canvasH, each independently,   *)
(* and every positive declared dimension passes through unchanged; under     *)
(* Bleed the resolved size is the canvas size whatever was declared.         *)
C3_PositivePassesThrough ==
    \A k \in DOMAIN layoutLog :
        LET e == layoutLog[k]
            b == TheFeature.bbox
        IN  IF TheFeature.anchor = "Bleed"
            THEN e.out.w = e.canvasW /\ e.out.h = e.canvasH
            ELSE /\ e.out.w = IF b.w > 0 THEN b.w ELSE e.canvasW
                 /\ e.out.h = IF b.h > 0 THEN b.h ELSE e.canvasH

C3_Witness ==
    /\ Len(layoutLog) = 1
    /\ TheFeature.anchor = "Center"
    /\ TheFeature.bbox.w = 0
    /\ TheFeature.bbox.h = 2
    /\ layoutLog[1].canvasW = 800
    /\ layoutLog[1].canvasH = 1
    /\ layoutLog[1].out.w = 800
    /\ layoutLog[1].out.h = 2

(* C4: for Top, Center and Bottom the resolved x is                          *)
(* floor((canvasW - w) / 2) + bbox.x, for Left, Center and Right the         *)
(* resolved y is floor((canvasH - h) / 2) + bbox.y, w and h being the        *)
(* effective sizes; the division rounds toward negative infinity.            *)
C4_CenteringIsFloor ==
    \A k \in DOMAIN layoutLog :
        LET e == layoutLog[k]
            f == TheFeature
        IN  /\ f.anchor \in {"Top", "Center", "Bottom"} =>
                  IsFloorHalf(e.canvasW - ResolvedW(f, e), e.out.x - f.bbox.x)
            /\ f.anchor \in {"Left", "Center", "Right"} =>
                  IsFloorHalf(e.canvasH - ResolvedH(f, e), e.out.y - f.bbox.y)
            /\ ( /\ f.anchor = "Center"
                 /\ f.bbox = BBox(0, 0, 100, 50)
                 /\ e.canvasW = 800 /\ e.canvasH = 600 )
               => e.out = BBox(350, 275, 100, 50)

C4_Witness ==
    /\ Len(layoutLog) = 1
    /\ TheFeature.anchor = "Center"
    /\ TheFeature.bbox = BBox(1, 0, 2, 0)
    /\ layoutLog[1].canvasW = 1
    /\ layoutLog[1].canvasH = 600
    /\ layoutLog[1].out = BBox(0, 0, 2, 600)

(* C5: TopLeft resolves to (bbox.x, bbox.y); the Right variants resolve x to *)
(* canvasW - w + bbox.x, the Bottom variants y to canvasH - h + bbox.y; the  *)
(* Top variants keep y = bbox.y and the Left variants x = bbox.x; w and h    *)
(* are the effective sizes.                                                  *)
C5_EdgeAnchors ==
    \A k \in DOMAIN layoutLog :
        LET e == layoutLog[k]
            f == TheFeature
        IN  /\ f.anchor \in {"TopRight", "Right", "BottomRight"} =>
                  e.out.x = e.canvasW - ResolvedW(f, e) + f.bbox.x
            /\ f.anchor \in {"BottomLeft", "Bottom", "BottomRight"} =>
                  e.out.y = e.canvasH - ResolvedH(f, e) + f.bbox.y
            /\ f.anchor \in {"TopLeft", "Top", "TopRight"} => e.out.y = f.bbox.y
            /\ f.anchor \in {"TopLeft", "Left", "BottomLeft"} => e.out.x = f.bbox.x

C5_Witness ==
    /\ Len(layoutLog) = 1
    /\ TheFeature.anchor = "BottomRight"
    /\ TheFeature.bbox = BBox(1, -1, 0, 2)
    /\ layoutLog[1].canvasW = 800
    /\ layoutLog[1].canvasH = 1
    /\ layoutLog[1].out = BBox(1, -2, 800, 2)

(* C6: under the Bleed anchor layout(canvasW, canvasH) returns               *)
(* (0, 0, canvasW, canvasH) for every declared bbox.                         *)
C6_BleedIsFullCanvas ==
    \A k \in DOMAIN layoutLog :
        TheFeature.anchor = "Bleed" =>
            layoutLog[k].out = BBox(0, 0, layoutLog[k].canvasW, layoutLog[k].canvasH)

C6_Witness ==
    /\ Len(layoutLog) = 1
    /\ TheFeature.anchor = "Bleed"
    /\ TheFeature.bbox = BBox(1, -1, -1, 2)
    /\ layoutLog[1].out = BBox(0, 0, 800, 1)

\* the box a recorded draw call carries
DrawnBox(d) ==
    IF d.op = "drawText" THEN d.bbox ELSE BBox(d.x, d.y, d.w, d.h)

\* equal canvases give equal boxes, among the direct layout calls and between
\* them and the layout calls render makes with the context's canvas
LayoutRepeatable ==
    /\ \A k, l \in DOMAIN layoutLog :
          ( /\ layoutLog[k].canvasW = layoutLog[l].canvasW
            /\ layoutLog[k].canvasH = layoutLog[l].canvasH )
          => layoutLog[k].out = layoutLog[l].out
    /\ \A k \in DOMAIN layoutLog, n \in DOMAIN draws :
          (layoutLog[k].canvasW = ctx.canvasW /\ layoutLog[k].canvasH = ctx.canvasH)
          => DrawnBox(draws[n]) = layoutLog[k].out

(* C7: a layout call changes neither the feature nor any context, cache or   *)
(* card data, and two calls with the same canvas return the same BBox        *)
(* whatever layout calls, validations and renders happened in between.       *)
C7_LayoutIsPure ==
    [][ /\ Len(layoutLog') > Len(layoutLog) =>
              /\ template' = template
              /\ ctx' = ctx
              /\ data' = data
              /\ draws' = draws
              /\ heap' = heap
        /\ LayoutRepeatable' ]_vars

C7_Witness ==
    /\ Len(layoutLog) = 2
    /\ layoutLog[1].canvasW = layoutLog[2].canvasW
    /\ layoutLog[1].canvasH = layoutLog[2].canvasH
    /\ layoutLog[1].canvasW = ctx.canvasW
    /\ layoutLog[1].canvasH = ctx.canvasH
    /\ layoutLog[1].renders < layoutLog[2].renders
    /\ verdict # NotCalled
    /\ TheFeature.kind = "Image"
    /\ TheFeature.anchor = "Center"
    /\ layoutLog[1].out # TheFeature.bbox

(* C8: a TextFeature's drawText carries the data value of textKey, or        *)
(* fallbackText when the key is absent, the BBox layout returns for the      *)
(* context's canvas and the feature's TextStyle; an ImageFeature's drawImage *)
(* carries the handle the context's cache holds for the resolved path, the   *)
(* resolved x, y, w, h and the style's radius.                               *)
C8_DrawsCarryResolvedData ==
    /\ \A k \in DOMAIN draws :
          LET d == draws[k]
              f == template.features[d.by]
              box == layout(f, ctx.canvasW, ctx.canvasH)
          IN  IF f.kind = "Text"
              THEN /\ d.op = "drawText"
                   /\ d.text = IF f.textKey \in DOMAIN data
                               THEN data[f.textKey] ELSE f.fallbackText
                   /\ d.bbox = box
                   /\ d.style = f.style
              ELSE /\ d.op = "drawImage"
                   /\ LET path == IF f.imageKey \in DOMAIN data
                                  THEN data[f.imageKey] ELSE f.fallbackImage
                      IN  /\ path \in DOMAIN ctx.resources.images
                          /\ d.img = ctx.resources.images[path]
                          /\ d.img.path = path
                   /\ <<d.x, d.y, d.w, d.h>> = <<box.x, box.y, box.w, box.h>>
                   /\ d.radius = f.style.radius
    /\ ( /\ pc = "Done"
         /\ template.resolution = Resolution(800, 600)
         /\ Len(template.features) = 1
         /\ template.features[1].kind = "Text"
         /\ template.features[1].id = "title"
         /\ "title" \in DOMAIN data /\ data["title"] = "Test Title" )
       => /\ Len(draws) = 1
          /\ draws[1].op = "drawText"
          /\ draws[1].text = "Test Title"
          /\ draws[1].bbox = BBox(10, 10, 200, 50)

C8_Witness ==
    /\ pc = "Done"
    /\ template.resolution = Resolution(800, 600)
    /\ Len(draws) = 3
    /\ draws[1].op = "drawImage"
    /\ draws[1].img.path = "art.png"
    /\ <<draws[1].x, draws[1].y, draws[1].w, draws[1].h>> = <<350, 275, 100, 50>>
    /\ draws[2].op = "drawText"
    /\ draws[2].text = "Test Title"
    /\ draws[2].bbox = BBox(10, 10, 200, 50)
    /\ draws[3].op = "drawText"
    /\ draws[3].bbox = BBox(-2, 278, 800, 50)

(* C9: when Template.validate fails, render leaves with that error: no       *)
(* context is constructed, no cache entry created, no draw call issued and   *)
(* no RenderedImage produced.                                                *)
C9_InvalidTemplateStopsRender ==
    ( \/ ~TemplateLevelOK(template)
      \/ \E i \in DOMAIN template.features : ~DeclaredOK(template.features[i]) )
    => /\ pc \in {"Unvalidated", "Failed"}
       /\ ctx = NoCtx
       /\ heap = 0
       /\ draws = <<>>
       /\ image = NoImage
       /\ pc = "Failed" => error.type = "ValueError" /\ error = TemplateValidate(template)

C9_Witness ==
    /\ pc = "Failed"
    /\ error.msg = "Invalid feature"
    /\ Len(template.features) = 3
    /\ template.features[1].kind = "Image"
    /\ template.features[1].enabled
    /\ DeclaredOK(template.features[1])
    /\ template.features[3].enabled
    /\ ~DeclaredOK(template.features[3])

(* C10, as claimed: a disabled feature causes no draw call, and its id, name *)
(* and declared bbox are not checked, so they cannot make the render fail.   *)
C10_DisabledNeverValidated ==
    /\ \A k \in DOMAIN draws : template.features[draws[k].by].enabled
    /\ ( /\ TemplateLevelOK(template)
         /\ \A i \in DOMAIN template.features :
               template.features[i].enabled => DeclaredOK(template.features[i]) )
       => pc # "Failed"

(* C10, amended: a disabled feature causes no draw call, but Template.validate *)
(* checks its id, name and declared bbox like those of any other feature, so   *)
(* an invalid disabled feature makes the render fail before any draw call.     *)
C10_DisabledNeverDrawn ==
    /\ \A k \in DOMAIN draws : template.features[draws[k].by].enabled
    /\ ComposeOver =>
          \A i \in DOMAIN template.features :
              ~template.features[i].enabled => \A k \in DOMAIN draws : draws[k].by # i
    /\ (\E i \in DOMAIN template.features :
            ~template.features[i].enabled /\ ~DeclaredOK(template.features[i]))
       => /\ pc \in {"Unvalidated", "Failed"}
          /\ draws = <<>>
          /\ pc = "Failed" => error.type = "ValueError"

C10_Witness ==
    /\ pc = "Failed"
    /\ error.msg = "Invalid feature"
    /\ TemplateLevelOK(template)
    /\ Len(template.features) = 2
    /\ template.features[1].enabled
    /\ DeclaredOK(template.features[1])
    /\ ~template.features[2].enabled
    /\ ~DeclaredOK(template.features[2])

----------------------------------------------------------------------------
(* Vocabulary of the validation properties *)

\* the first declared field of f that is at fault, read off the declaration
DeclaredFault(f) ==
    IF f.id = "" THEN "ID"
    ELSE IF f.name = "" THEN "NAME"
    ELSE IF f.bbox.w < 0 \/ f.bbox.h < 0 THEN "GEOMETRY"
    ELSE "none"

\* the kind of a feature-level error, read off its message
ErrorKind(e) ==
    IF e = NoError THEN "none"
    ELSE IF e.msg = "Feature id cannot be empty" THEN "ID"
    ELSE IF e.msg = "Feature name cannot be empty" THEN "NAME"
    ELSE IF e.msg = "Bounding box dimensions must be non-negative" THEN "GEOMETRY"
    ELSE "other"

\* the declaration positions of the features at fault
FaultyPositions(t) == {i \in DOMAIN t.features : DeclaredFault(t.features[i]) # "none"}

FirstFaulty(t) == CHOOSE i \in FaultyPositions(t) : \A j \in FaultyPositions(t) : i <= j

ValidationOver == pc # "Unvalidated" /\ pc # "Direct"

----------------------------------------------------------------------------
(* C11: Template.validate reports the first failing check of a fixed order:   *)
(* the empty template name, then a resolution whose width or height is not    *)
(* positive, then the features in declaration order. It stops at the invalid  *)
(* feature of smallest declaration index, whatever the layers are, validates  *)
(* no later feature, and succeeds exactly when no check fails.                *)
C11_FirstFailingCheck ==
    ValidationOver =>
        IF template.name = ""
        THEN /\ pc = "Failed"
             /\ error = ValueError("Template name cannot be empty")
             /\ validated = <<>>
        ELSE IF template.resolution.width <= 0 \/ template.resolution.height <= 0
        THEN /\ pc = "Failed"
             /\ error.type = "ValueError"
             /\ error.msg = "Template resolution must be positive"
             /\ validated = <<>>
        ELSE IF FaultyPositions(template) # {}
        THEN /\ pc = "Failed"
             /\ error.type = "ValueError"
             /\ error.msg = "Invalid feature"
             /\ ErrorKind(error.cause) = DeclaredFault(template.features[FirstFaulty(template)])
             /\ validated = [k \in 1..FirstFaulty(template) |-> k]
        ELSE /\ pc # "Failed"
             /\ error = NoError
             /\ validated = [k \in 1..Len(template.features) |-> k]

\* a valid feature, then two invalid ones of different faults, the first
\* declared of them on the higher layer: the error is about the first declared
C11_Witness ==
    /\ pc = "Failed"
    /\ template.name # ""
    /\ template.resolution = Resolution(800, 600)
    /\ Len(template.features) = 3
    /\ DeclaredFault(template.features[1]) = "none"
    /\ DeclaredFault(template.features[2]) = "GEOMETRY"
    /\ DeclaredFault(template.features[3]) = "NAME"
    /\ template.features[2].layer > template.features[3].layer
    /\ ErrorKind(error.cause) = "GEOMETRY"
    /\ validated = <<1, 2>>

(* C12: a feature-level failure inside Template.validate comes out wrapped in  *)
(* an error that names the offending feature, or gives its position in the    *)
(* declaration when the name is not there to use, an empty name included, so  *)
(* that every such error locates the feature; the wrapped error keeps the     *)
(* kind and message of the feature's own failure.                             *)
C12_WrappedErrorLocatesFeature ==
    (ValidationOver /\ pc = "Failed" /\ error.msg = "Invalid feature") =>
        LET i == FirstFaulty(template)
            f == template.features[i]
        IN  /\ error.type = "ValueError"
            /\ error.feature = (IF f.name # "" THEN f.name ELSE AtIndex(i - 1))
            /\ ErrorKind(error.cause) = DeclaredFault(f)

(* C13: Feature.validate fails with the ID error when the id is empty,        *)
(* otherwise with the NAME error when the name is empty, otherwise with the   *)
(* GEOMETRY error when the declared w or h is negative, and succeeds          *)
(* otherwise. Which of the four it is depends on the declared id, name, w and *)
(* h alone: the anchor, the offsets, the layer and the enabled flag can be    *)
(* changed without changing it.                                               *)
C13_ValidateOrderAndInputs ==
    verdict # NotCalled =>
        LET f == TheFeature
        IN  /\ f.id = "" => ErrorKind(verdict) = "ID"
            /\ (f.id # "" /\ f.name = "") => ErrorKind(verdict) = "NAME"
            /\ (f.id # "" /\ f.name # "" /\ (f.bbox.w < 0 \/ f.bbox.h < 0))
                  => ErrorKind(verdict) = "GEOMETRY"
            /\ (f.id # "" /\ f.name # "" /\ f.bbox.w >= 0 /\ f.bbox.h >= 0)
                  => verdict = NoError
            /\ verdict # NoError => verdict.type = "ValueError"
            /\ \A a \in Anchor, o \in Offsets, l \in {-1, 1}, en \in BOOLEAN :
                  ErrorKind(FeatureValidate(
                      [f EXCEPT !.anchor = a, !.bbox.x = o, !.bbox.y = -o,
                                !.layer = l, !.enabled = en])) = ErrorKind(verdict)

\* all three faults at once: the id is the one reported
C13_Witness ==
    /\ pc = "Direct"
    /\ TheFeature.id = ""
    /\ TheFeature.name = ""
    /\ TheFeature.bbox.w < 0
    /\ TheFeature.anchor = "Bleed"
    /\ ~TheFeature.enabled
    /\ verdict = ValueError("Feature id cannot be empty")

----------------------------------------------------------------------------
(* Vocabulary of the cache properties *)

\* the cache keeps every entry it has, with the handle it has
EntriesKept ==
    /\ \A p \in DOMAIN cache.images :
          p \in DOMAIN cache'.images /\ cache'.images[p] = cache.images[p]
    /\ \A k \in DOMAIN cache.fonts :
          k \in DOMAIN cache'.fonts /\ cache'.fonts[k] = cache.fonts[k]

\* the call that has just returned, if one has
CallReturned == Len(cacheLog') = Len(cacheLog) + 1

(* C14: on one ResourceCache, getImage(p) returns the very handle an earlier  *)
(* getImage(p) returned, getFont(p, s) the very handle an earlier             *)
(* getFont(p, s) returned, and calls with different keys return distinct      *)
(* handles. No entry is ever evicted or replaced, getFont leaves the image    *)
(* entries alone and getImage the font entries.                               *)
C14_StableHandles ==
    [][ /\ EntriesKept
        /\ CallReturned =>
              LET n == Len(cacheLog')
                  c == cacheLog'[n]
              IN  /\ c.op = "getFont" => cache'.images = cache.images
                  /\ c.op = "getImage" => cache'.fonts = cache.fonts
                  /\ \A i \in 1..(n - 1) :
                        IF cacheLog'[i].op = c.op /\ cacheLog'[i].key = c.key
                        THEN cacheLog'[i].ret = c.ret
                        ELSE cacheLog'[i].ret.ref # c.ret.ref
    ]_vars

\* getImage(p) twice with a getFont in between
C14_Witness ==
    /\ Len(cacheLog) = 3
    /\ cacheLog[1].op = "getImage"
    /\ cacheLog[2].op = "getFont"
    /\ cacheLog[3].op = "getImage"
    /\ cacheLog[1].key = cacheLog[3].key
    /\ cacheLog[1].ret = cacheLog[3].ret
    /\ cacheLog[2].ret.ref # cacheLog[1].ret.ref
    /\ DOMAIN cache.images = {cacheLog[1].key[1]}
    /\ DOMAIN cache.fonts = {cacheLog[2].key}

(* C15: when concurrent renders share one ResourceCache, the look-up that    *)
(* populates on a miss is atomic per key: in every interleaving of the        *)
(* callers each resource is loaded exactly once, one handle is stored for it, *)
(* and all the callers of a key receive that same handle.                     *)
C15_AtomicPopulate ==
    pc = "Threads" =>
        /\ heap = Cardinality(DOMAIN cache.images) + Cardinality(DOMAIN cache.fonts)
        /\ \A i, j \in DOMAIN cacheLog :
              (cacheLog[i].op = cacheLog[j].op /\ cacheLog[i].key = cacheLog[j].key)
                  => cacheLog[i].ret = cacheLog[j].ret

\* the call was for a file that does not exist
MissingFile(c) == c.key[1] \notin Files

\* what the call returned is an error, not a handle
IsResourceError(r) == "type" \in DOMAIN r /\ r.type = "FileNotFoundError"

(* C16: a getFont or getImage call whose load fails, the file being missing,  *)
(* fails with a RESOURCE error, which the cache neither catches nor hides,    *)
(* and leaves no entry for the key, so that a later call with the same key    *)
(* tries the load again instead of getting a stored failure or a stored       *)
(* invalid handle.                                                            *)
C16_FailedLoadLeavesNoEntry ==
    pc = "Caller" =>
        /\ \A i \in DOMAIN cacheLog :
              MissingFile(cacheLog[i]) => IsResourceError(cacheLog[i].ret)
        /\ \A p \in DOMAIN cache.images : p \in Files
        /\ \A k \in DOMAIN cache.fonts : k[1] \in Files

----------------------------------------------------------------------------
(* Vocabulary of the context properties *)

\* the handles a cache holds
HandlesOf(c) ==
    {c.images[p] : p \in DOMAIN c.images} \cup {c.fonts[k] : k \in DOMAIN c.fonts}

CompositionStarts == pc = "ContextBuilt" /\ idx = 1

(* C17: every render call builds a RenderContext bound to the template's      *)
(* resolution, to its dpi and to the CardData of the call, with a             *)
(* ResourceCache of its own that is empty when the composition starts; render *)
(* takes no cache from its caller, so no handle cached during one render call *)
(* is visible to another.                                                     *)
C17_FreshContextPerRender ==
    RenderStarted =>
        /\ ctx.canvasW = template.resolution.width
        /\ ctx.canvasH = template.resolution.height
        /\ ctx.dpi = template.dpi
        /\ ctx.data = data
        /\ CompositionStarts => ctx.resources = [fonts |-> <<>>, images |-> <<>>]
        /\ HandlesOf(ctx.resources) \cap HandlesOf(prior) = {}

\* a second render that has loaded the image the first one had loaded
C17_Witness ==
    /\ renderNo = 2
    /\ pc = "Done"
    /\ "art.png" \in DOMAIN prior.images
    /\ "art.png" \in DOMAIN ctx.resources.images
    /\ ctx.resources.images["art.png"] # prior.images["art.png"]

(* C18: for every template that passes validation, the RenderedImage that    *)
(* render returns has exactly the width and the height of the template's      *)
(* resolution, both greater than zero.                                        *)
C18_ImageHasTemplateResolution ==
    /\ pc = "Done" => image # NoImage
    /\ image # NoImage =>
          /\ pc = "Done"
          /\ TemplateLevelOK(template)
          /\ \A i \in DOMAIN template.features : DeclaredOK(template.features[i])
          /\ image.width = template.resolution.width
          /\ image.height = template.resolution.height
          /\ image.width > 0
          /\ image.height > 0

\* a render of features that is over, on a canvas that is not square
C18_Witness ==
    /\ pc = "Done"
    /\ Len(draws) >= 2
    /\ template.resolution = Resolution(3, 2)
    /\ image = [width |-> 3, height |-> 2]

(* C19: the construction of a RenderContext fails at once when canvasW or     *)
(* canvasH is not positive, or when dpi is not positive, the canvas being     *)
(* tested before the dpi, and leaves no context behind; every context that    *)
(* is constructed has canvasW, canvasH and dpi greater than zero.             *)
C19_ContextNeedsPositiveInputs ==
    /\ ctx # NoCtx => ctx.canvasW > 0 /\ ctx.canvasH > 0 /\ ctx.dpi > 0
    /\ lastCall # NotCalled =>
          IF lastCall.canvasW <= 0 \/ lastCall.canvasH <= 0
          THEN /\ ctx = NoCtx
               /\ error.type = "ValueError"
               /\ error.msg = "Canvas dimensions must be positive"
          ELSE IF lastCall.dpi <= 0
          THEN /\ ctx = NoCtx
               /\ error.type = "ValueError"
               /\ error.msg = "dpi must be positive"
          ELSE /\ error = NoError
               /\ ctx # NoCtx
               /\ ctx.canvasW = lastCall.canvasW
               /\ ctx.canvasH = lastCall.canvasH
               /\ ctx.dpi = lastCall.dpi

\* a canvas side and the dpi at fault together: the canvas is what is reported
C19_Witness ==
    /\ lastCall # NotCalled
    /\ lastCall.canvasW > 0
    /\ lastCall.canvasH = 0
    /\ lastCall.dpi < 0
    /\ ctx = NoCtx
    /\ error.msg = "Canvas dimensions must be positive"

----------------------------------------------------------------------------
(* Vocabulary of the render states *)

\* the place of a state in Unvalidated, Validated, Context-Built, Composed, Done
Rank(p) ==
    CASE p = "Unvalidated" -> 1
      [] p = "Validated" -> 2
      [] p = "ContextBuilt" -> 3
      [] p = "Composed" -> 4
      [] p = "Done" -> 5
      [] OTHER -> 0

\* every enabled feature has issued a draw call
AllEnabledDrawn ==
    \A i \in DOMAIN template.features :
        template.features[i].enabled => \E k \in DOMAIN draws : draws[k].by = i

(* C20: one render call goes through Unvalidated, Validated, Context-Built,   *)
(* Composed and Done in that order: a state is entered only from the one      *)
(* before it, so at most once, none is skipped or tried again, and a failure  *)
(* ends the call. No draw call is issued before the whole template has been   *)
(* validated and the context built, and the RenderedImage is produced only    *)
(* after the draw calls of all the enabled features.                          *)
C20_LinearRenderStates ==
    [][ /\ pc' # pc =>
              /\ Rank(pc) \in 1..4
              /\ pc' = "Failed" \/ Rank(pc') = Rank(pc) + 1
        /\ draws' # draws =>
              /\ pc = "ContextBuilt"
              /\ ctx # NoCtx
              /\ validated = [k \in 1..Len(template.features) |-> k]
              /\ error = NoError
        /\ image' # image =>
              /\ pc = "Composed"
              /\ pc' = "Done"
              /\ draws' = draws
              /\ AllEnabledDrawn
    ]_vars

\* a render call that has gone all the way, three draw calls on its way
C20_Witness ==
    /\ pc = "Done"
    /\ Len(validated) = 3
    /\ Len(draws) = 3
    /\ ctx # NoCtx
    /\ image # NoImage

----------------------------------------------------------------------------
(* Vocabulary of the failing backend *)

\* the positions of byLayer the loop has gone past
Passed == {byLayer[j] : j \in 1..(idx - 1)}

(* C21: a RESOURCE error or a DRAW error raised while a feature is rendered   *)
(* aborts the whole render: the caller of render gets that very error, the    *)
(* failing feature is not passed over, no feature later in layer order is     *)
(* drawn and no RenderedImage is returned.                                    *)
C21_BackendErrorAbortsRender ==
    raised # NoError =>
        /\ pc = "Failed"
        /\ error = raised
        /\ image = NoImage
        /\ idx <= Len(byLayer)
        /\ template.features[byLayer[idx]].enabled
        /\ \A k \in DOMAIN draws : draws[k].by \in Passed

\* the second of three enabled features fails to load its image: one draw
\* call has been made and the third feature never renders
C21_Witness ==
    /\ pc = "Failed"
    /\ raised.type = "FileNotFoundError"
    /\ Len(byLayer) = 3
    /\ idx = 2
    /\ Len(draws) = 1
    /\ \A i \in 1..3 : template.features[i].enabled

(* C22: a feature's render is idempotent: rendering the same feature again    *)
(* with the same RenderContext and CardData issues a draw call with the same  *)
(* arguments (the same text or the same image handle by reference, the same   *)
(* resolved geometry, the same style or radius), also for an ImageFeature     *)
(* whose first render put the handle into the context's ResourceCache.        *)
C22_RenderIsIdempotent ==
    pc = "Direct" =>
        \A i, j \in DOMAIN draws :
            /\ draws[i] = draws[j]
            /\ draws[i].op = "drawImage" =>
                  /\ draws[i].img.ref = draws[j].img.ref
                  /\ draws[i].img \in HandlesOf(ctx.resources)

\* an ImageFeature rendered twice, the path coming from the data: the second
\* call draws the handle the first call stored
C22_Witness ==
    /\ pc = "Direct"
    /\ Len(draws) = 2
    /\ draws[1].op = "drawImage"
    /\ draws[1].img.path = "art.png"
    /\ draws[2].img = draws[1].img
    /\ heap = 1
    /\ Len(layoutLog) = 1

(* C23: feature ids are non-empty and unique within a template: in every      *)
(* template that passes Template.validate, and so in every template that is   *)
(* rendered, no two features of the feature list have the same id.            *)
C23_ValidatedIdsUnique ==
    (ValidationOver /\ pc # "Failed") =>
        \A i, j \in DOMAIN template.features :
            /\ template.features[i].id # ""
            /\ i # j => template.features[i].id # template.features[j].id

(* C24: a CardData lookup never errors: get(key, fallback), and               *)
(* get_text_value / get_image_value of the RenderContext built on it, return  *)
(* the stored value whenever the key is in the mapping, also when that value  *)
(* is the empty string, and the caller's fallback exactly when the key is     *)
(* absent; the lookup leaves the mapping unchanged.                           *)
C24_LookupWithFallback ==
    [][ lastCall' # lastCall =>
            /\ data' = data
            /\ ctx' = ctx
            /\ ctx.data = data
            /\ lastCall'.op \in {"get", "get_text_value", "get_image_value"}
            /\ IF lastCall'.key \in DOMAIN data
               THEN lastCall'.ret = data[lastCall'.key]
               ELSE lastCall'.ret = lastCall'.fallback
    ]_vars

\* the key is there with the empty string: the empty string comes back
C24_Witness ==
    /\ lastCall # NotCalled
    /\ lastCall.op = "get_text_value"
    /\ lastCall.key = "title"
    /\ lastCall.key \in DOMAIN data
    /\ data["title"] = ""
    /\ lastCall.fallback = "N/A"
    /\ lastCall.ret = ""

(* C25: the construction of a Template fails at once exactly when dpi <= 0,   *)
(* or safeMargin < 0, or bleed < 0, reported in that order of precedence. An  *)
(* empty name, a resolution that is not positive and invalid features are     *)
(* accepted by the constructor and rejected only by a later validate(). Every *)
(* constructed Template has dpi > 0, safeMargin >= 0 and bleed >= 0.          *)
C25_TemplateConstruction ==
    /\ template # NoTemplate =>
          template.dpi > 0 /\ template.safeMargin >= 0 /\ template.bleed >= 0
    /\ (pc = "Caller" /\ lastCall # NotCalled) =>
          IF lastCall.dpi <= 0
          THEN template = NoTemplate /\ error.msg = "dpi must be positive"
          ELSE IF lastCall.safeMargin < 0
          THEN template = NoTemplate /\ error.msg = "safeMargin must be non-negative"
          ELSE IF lastCall.bleed < 0
          THEN template = NoTemplate /\ error.msg = "bleed must be non-negative"
          ELSE /\ error = NoError
               /\ template # NoTemplate
               /\ template.name = lastCall.name
               /\ template.resolution = lastCall.resolution
               /\ template.features = lastCall.features
               /\ template.dpi = lastCall.dpi
               /\ template.safeMargin = lastCall.safeMargin
               /\ template.bleed = lastCall.bleed
               /\ verdict # NotCalled =>
                     (verdict = NoError <=>
                         /\ TemplateLevelOK(template)
                         /\ \A i \in DOMAIN template.features :
                               DeclaredOK(template.features[i]))

\* a template with an empty name, a width of 0 and an invalid feature is
\* constructed, and validate() is what rejects it
C25_Witness ==
    /\ pc = "Caller"
    /\ template # NoTemplate
    /\ template.name = ""
    /\ template.resolution.width = 0
    /\ template.dpi = 72
    /\ Len(template.features) = 1
    /\ ~DeclaredOK(template.features[1])
    /\ error = NoError
    /\ verdict = ValueError("Template name cannot be empty")

----------------------------------------------------------------------------
(* Vocabulary of the aspect property *)

Coprime(a, b) ==
    \A k \in 2..(IF a < b THEN a ELSE b) : ~(a % k = 0 /\ b % k = 0)

(* C26: for every Resolution with width > 0 and height > 0, aspect() returns  *)
(* "a:b" where a and b are coprime positive integers with                     *)
(* a * height = b * width, that is width and height divided by their greatest *)
(* common divisor: 1920x1080 gives 16:9, 1000x1000 gives 1:1, 2100x2970 gives *)
(* 70:99.                                                                     *)
C26_AspectIsReducedFraction ==
    (pc = "Caller" /\ lastCall # NotCalled) =>
        LET w == template.resolution.width
            h == template.resolution.height
        IN  /\ \E a \in 1..w :
                  /\ (a * h) % w = 0
                  /\ lastCall.ret = ToString(a) \o ":" \o ToString((a * h) \div w)
                  /\ Coprime(a, (a * h) \div w)
            /\ template.resolution = Resolution(1920, 1080) => lastCall.ret = "16:9"
            /\ template.resolution = Resolution(1000, 1000) => lastCall.ret = "1:1"
            /\ template.resolution = Resolution(2100, 2970) => lastCall.ret = "70:99"

\* a resolution whose sides share the factor 30
C26_Witness ==
    /\ pc = "Caller"
    /\ template.resolution = Resolution(2100, 2970)
    /\ lastCall # NotCalled
    /\ lastCall.ret = "70:99"

(* C27: every BBox that Feature.layout returns for a positive canvas          *)
(* (canvasW > 0, canvasH > 0) has w > 0 and h > 0, hence w >= 0 and h >= 0,   *)
(* for every anchor and every declared bbox, one that was never validated and *)
(* declares a negative width or height included.                              *)
C27_ResolvedSizeIsPositive ==
    \A k \in DOMAIN layoutLog :
        (layoutLog[k].canvasW > 0 /\ layoutLog[k].canvasH > 0)
            => layoutLog[k].out.w > 0 /\ layoutLog[k].out.h > 0

\* a negative declared height under an anchor that is not Bleed
C27_Witness ==
    /\ Len(layoutLog) = 1
    /\ TheFeature.anchor = "BottomRight"
    /\ TheFeature.bbox.h = -1
    /\ TheFeature.bbox.w = -1
    /\ layoutLog[1].canvasW = 2
    /\ layoutLog[1].canvasH = 600
    /\ layoutLog[1].out.w = 2
    /\ layoutLog[1].out.h = 600

(* C28: when a Template that was constructed successfully and not modified   *)
(* since passes Template.validate, render on it cannot fail in the library's  *)
(* own steps: the construction of the RenderContext and that of the           *)
(* RenderedImage both succeed, so the render ends in Done with a              *)
(* RenderedImage unless a resource load or a draw call of the backend fails.  *)
C28_ValidatedRenderOnlyFailsInBackend ==
    [][ /\ (pc # "Failed" /\ pc' = "Failed") =>
              \/ /\ pc = "Unvalidated"
                 /\ ~( /\ TemplateLevelOK(template)
                       /\ \A i \in DOMAIN template.features :
                             DeclaredOK(template.features[i]) )
              \/ pc = "ContextBuilt" /\ raised' # NoError /\ error' = raised'
        /\ pc = "Validated" => (pc' = "Validated" \/ (pc' = "ContextBuilt" /\ ctx' # NoCtx))
        /\ pc = "Composed" => (pc' = "Composed" \/ (pc' = "Done" /\ image' # NoImage))
    ]_vars

\* a validated template on the smallest canvas, rendered to the end
C28_Witness ==
    /\ pc = "Done"
    /\ raised = NoError
    /\ template.dpi > 0
    /\ template.resolution = Resolution(3, 2)
    /\ validated = <<1, 2>>
    /\ ctx.canvasW = 3
    /\ image # NoImage

----------------------------------------------------------------------------
(* Vocabulary of the resource requests *)

\* the path an ImageFeature asks for: the data value of its key, else its fallback
ResolvedPath(f) == IF f.imageKey \in DOMAIN data THEN data[f.imageKey] ELSE f.fallbackImage

\* the enabled ImageFeatures among the positions ps
EnabledImages(ps) ==
    {i \in ps : template.features[i].kind = "Image" /\ template.features[i].enabled}

(* C29: resources are requested lazily and only by the features that are      *)
(* rendered: at every point of a render the image keys of the context's       *)
(* ResourceCache are the resolved paths (data value or fallbackImage) of the  *)
(* enabled ImageFeatures rendered so far, after the render those of all the   *)
(* enabled ImageFeatures, each path loaded once even when several features    *)
(* resolve to it. Disabled features and TextFeatures cause no cache access:   *)
(* the font entries stay empty throughout.                                    *)
C29_LazyResourceRequests ==
    RenderStarted =>
        /\ ctx.resources.fonts = <<>>
        /\ DOMAIN ctx.resources.images =
              {ResolvedPath(template.features[i]) : i \in EnabledImages(Passed)}
        /\ ComposeOver =>
              DOMAIN ctx.resources.images =
                  {ResolvedPath(template.features[i]) :
                      i \in EnabledImages(DOMAIN template.features)}
        /\ \A k \in DOMAIN draws :
              draws[k].op = "drawImage" =>
                  draws[k].img = ctx.resources.images[draws[k].img.path]
        /\ \A p, q \in DOMAIN ctx.resources.images :
              p # q => ctx.resources.images[p].ref # ctx.resources.images[q].ref

\* two enabled ImageFeatures falling back to one path, a disabled one with a
\* path of its own, and a TextFeature: one entry, no font
C29_Witness ==
    /\ pc = "Done"
    /\ renderNo = 1
    /\ Len(template.features) = 3
    /\ Cardinality(EnabledImages(DOMAIN template.features)) = 2
    /\ \E i \in DOMAIN template.features : template.features[i].id = "back"
    /\ Len(draws) = 2
    /\ DOMAIN ctx.resources.images = {"default.png"}
    /\ heap = 1

----------------------------------------------------------------------------
(* C30: CardRenderer.render and Template.validate, whether they succeed or    *)
(* fail, leave the Template (name, resolution, dpi, safeMargin, bleed, the    *)
(* feature list in its declaration order, every feature's fields and style)   *)
(* and the CardData mapping unchanged; getFeaturesByLayer returns a new list  *)
(* and never reorders template.features. A render changes only the drawing    *)
(* surface and the ResourceCache of its own RenderContext: the canvas size,   *)
(* dpi and data of a built context stay, and so does every cache the render   *)
(* was not given.                                                             *)
C30_RenderLeavesInputsUnchanged ==
    [][ /\ template' = template
        /\ data' = data
        /\ cache' = cache
        /\ ctx # NoCtx =>
              /\ ctx' # NoCtx
              /\ [ctx' EXCEPT !.resources = ctx.resources] = ctx
    ]_vars

\* a finished render of a template declared out of layer order, whose sorted
\* list the caller also asked for, with a drawing made and an image loaded
C30_Witness ==
    /\ pc = "Done"
    /\ sortedOut.called
    /\ sortedOut.result # [k \in 1..Len(template.features) |-> k]
    /\ byLayer = sortedOut.result
    /\ draws # <<>>
    /\ ctx.resources.images # <<>>

====
